---- MODULE Spec2Model ----
(***************************************************************************)
(* The LLM output reconciliation pipeline of the recommendation engine:    *)
(* recommend_objective (src/inference/recommendation.py) and               *)
(* generate_test_cases (src/inference/test_generation.py), driven by the   *)
(* endpoint handlers of src/main.py.                                       *)
(*                                                                         *)
(* Text is a sequence of one-character strings.  Characters outside ASCII  *)
(* are written as named tokens ("BULLET" is U+2022, "LDQUO"/"RDQUO" are    *)
(* U+201C/U+201D); each token is one character of the text.                *)
(***************************************************************************)
EXTENDS Naturals, Sequences, FiniteSets, TLC

(***************************************************************************)
(* Bounds of the model.                                                    *)
(***************************************************************************)
\* numRecommendations ranges over 1..MaxN (the schema allows 1..5).
MaxN == 2
\* The model's JSON lists (definingObjectives, testCases) hold up to this many entries.
MaxItems == 2
\* A plain-prose reply has up to this many lines.
MaxLines == 2
\* number_of_intents ranges over 1..MaxK (the schema allows 1..10).
MaxK == 2

(***************************************************************************)
(* Characters and the str methods the reconcilers use.                     *)
(***************************************************************************)
Quote == "\""
NL == "\n"
Bullet == "BULLET"

Whitespace == {" ", "\t", "\n"}
Digits == {"0", "1", "2", "3", "4", "5", "6", "7", "8", "9"}
BulletMarks == {"-", "BULLET", "*"}

Upper ==
    <<"A", "B", "C", "D", "E", "F", "G", "H", "I", "J", "K", "L", "M",
      "N", "O", "P", "Q", "R", "S", "T", "U", "V", "W", "X", "Y", "Z">>
Lower ==
    <<"a", "b", "c", "d", "e", "f", "g", "h", "i", "j", "k", "l", "m",
      "n", "o", "p", "q", "r", "s", "t", "u", "v", "w", "x", "y", "z">>

\* str.lower() on one character.
LowerChar(c) ==
    IF \E i \in 1..Len(Upper) : Upper[i] = c
    THEN Lower[CHOOSE i \in 1..Len(Upper) : Upper[i] = c]
    ELSE c

\* str.lower()
lower(s) == [i \in 1..Len(s) |-> LowerChar(s[i])]

\* s[:n]
Take(s, n) == IF Len(s) <= n THEN s ELSE SubSeq(s, 1, n)

\* s[i:] with i counted from 1
From(s, i) == IF i > Len(s) THEN <<>> ELSE SubSeq(s, i, Len(s))

\* The first position >= i of s that holds a character of chars, 0 if none.
Find(s, i, chars) ==
    IF \E j \in i..Len(s) : s[j] \in chars
    THEN CHOOSE j \in i..Len(s) : s[j] \in chars /\ \A k \in i..(j - 1) : s[k] \notin chars
    ELSE 0

RECURSIVE SkipWs(_, _)
\* The first position >= i of s that holds no whitespace (Len(s)+1 if none).
SkipWs(s, i) ==
    IF i <= Len(s) /\ s[i] \in Whitespace THEN SkipWs(s, i + 1) ELSE i

RECURSIVE LastNonWs(_, _)
\* The last position <= i of s that holds no whitespace (0 if none).
LastNonWs(s, i) ==
    IF i >= 1 /\ s[i] \in Whitespace THEN LastNonWs(s, i - 1) ELSE i

\* str.strip()
strip(s) ==
    LET a == SkipWs(s, 1)
        b == LastNonWs(s, Len(s))
    IN  IF a > b THEN <<>> ELSE SubSeq(s, a, b)

RECURSIVE SplitOn(_, _, _)
\* The pieces of s from position i on, cut at every character of seps.
SplitOn(s, seps, i) ==
    LET j == Find(s, i, seps)
    IN  IF j = 0 THEN <<From(s, i)>>
        ELSE <<SubSeq(s, i, j - 1)>> \o SplitOn(s, seps, j + 1)

\* str.splitlines(): no trailing empty line, and no line at all for the empty text.
splitlines(s) ==
    LET parts == SplitOn(s, {NL}, 1)
    IN  IF parts[Len(parts)] = <<>> THEN SubSeq(parts, 1, Len(parts) - 1) ELSE parts

RECURSIVE Join(_, _)
\* sep.join(parts)
Join(parts, sep) ==
    IF parts = <<>> THEN <<>>
    ELSE IF Len(parts) = 1 THEN parts[1]
    ELSE parts[1] \o sep \o Join(Tail(parts), sep)

RECURSIVE SelectNonEmptyStripped(_)
\* [p.strip() for p in parts if p.strip()]
SelectNonEmptyStripped(parts) ==
    IF parts = <<>> THEN <<>>
    ELSE LET p == strip(parts[1])
         IN  (IF p = <<>> THEN <<>> ELSE <<p>>) \o SelectNonEmptyStripped(Tail(parts))

RECURSIVE SkipDigits(_, _)
\* The first position >= i of s that holds no digit.
SkipDigits(s, i) ==
    IF i <= Len(s) /\ s[i] \in Digits THEN SkipDigits(s, i + 1) ELSE i

\* The regular expression ^(\d+[\.\)]\s+|[-BULLET*]\s+) matched at the start of s:
\* the position just after the marker and its whitespace, or 0 when it does not match.
MarkerEnd(s) ==
    LET d == SkipDigits(s, 1)
        afterNum == IF d > 1 /\ d <= Len(s) /\ s[d] \in {".", ")"} THEN d + 1 ELSE 0
        afterBul == IF Len(s) >= 1 /\ s[1] \in BulletMarks THEN 2 ELSE 0
        m == IF afterNum > 0 THEN afterNum ELSE afterBul
    IN  IF m > 0 /\ m <= Len(s) /\ s[m] \in Whitespace THEN SkipWs(s, m) ELSE 0

(***************************************************************************)
(* JSON values.  Every value is a record of the same shape: t is the type  *)
(* ("str", "num", "null", "list", "obj"), s the characters of a string or  *)
(* a number, items the entries of a list or the values of an object, keys  *)
(* the keys of an object (keys[i] names items[i]).                         *)
(***************************************************************************)
JStr(s) == [t |-> "str", s |-> s, items |-> <<>>, keys |-> <<>>]
JNum(s) == [t |-> "num", s |-> s, items |-> <<>>, keys |-> <<>>]
JNull == [t |-> "null", s |-> <<>>, items |-> <<>>, keys |-> <<>>]
JList(items) == [t |-> "list", s |-> <<>>, items |-> items, keys |-> <<>>]
JObj(keys, items) == [t |-> "obj", s |-> <<>>, items |-> items, keys |-> keys]

\* Python's None
None == JNull

\* key in d
HasKey(d, k) == \E i \in 1..Len(d.keys) : d.keys[i] = k

\* dict.get(k): the value of the last occurrence of k (a later duplicate key
\* replaces an earlier one when the object is built), None when absent.
Get(d, k) ==
    IF HasKey(d, k)
    THEN d.items[CHOOSE i \in 1..Len(d.keys) :
                    /\ d.keys[i] = k
                    /\ \A j \in (i + 1)..Len(d.keys) : d.keys[j] # k]
    ELSE None

\* d[k] = v
Put(d, k, v) ==
    IF HasKey(d, k)
    THEN JObj(d.keys, [i \in 1..Len(d.items) |-> IF d.keys[i] = k THEN v ELSE d.items[i]])
    ELSE JObj(Append(d.keys, k), Append(d.items, v))

(***************************************************************************)
(* The tolerant JSON parser (safe_json_loads of src/inference/utilities,   *)
(* which the reconcilers import).  A parse result is [ok, val, pos]: pos   *)
(* is the position after the value read.                                   *)
(***************************************************************************)
ParseFail == [ok |-> FALSE, val |-> JNull, pos |-> 0]
ParseOk(v, p) == [ok |-> TRUE, val |-> v, pos |-> p]

\* The position of the quote closing a string literal whose body starts at i,
\* 0 if the literal is not closed on its line.  (The texts hold no backslash.)
FindQuote(s, i) ==
    LET j == Find(s, i, {Quote, NL})
    IN  IF j # 0 /\ s[j] = Quote THEN j ELSE 0

\* A string literal at position i (s[i] is its opening quote).
ParseString(s, i) ==
    LET q == FindQuote(s, i + 1)
    IN  IF q = 0 THEN ParseFail
        ELSE ParseOk(JStr(SubSeq(s, i + 1, q - 1)), q + 1)

\* The word w at position i of s.
IsWordAt(s, i, w) == i + Len(w) - 1 <= Len(s) /\ SubSeq(s, i, i + Len(w) - 1) = w

RECURSIVE ParseValue(_, _)
RECURSIVE ParseElems(_, _, _)
RECURSIVE ParseMembers(_, _, _, _)

\* After an entry of a list: d is the position of the next token.
ElemsSep(s, d, acc) ==
    IF d > Len(s) THEN ParseFail
    ELSE IF s[d] = "," THEN ParseElems(s, d + 1, acc)
    ELSE IF s[d] = "]" THEN ParseOk(JList(acc), d + 1)
    ELSE ParseFail

\* An entry v of a list has been read.
ElemsAfter(s, v, acc) ==
    IF v.ok THEN ElemsSep(s, SkipWs(s, v.pos), Append(acc, v.val)) ELSE ParseFail

\* The entries of a list after "[" or ","; i is the position of the next entry.
ParseElems(s, i, acc) == ElemsAfter(s, ParseValue(s, i), acc)

\* After a member of an object: d is the position of the next token.
MemberSep(s, d, ks, vs) ==
    IF d > Len(s) THEN ParseFail
    ELSE IF s[d] = "," THEN ParseMembers(s, d + 1, ks, vs)
    ELSE IF s[d] = "}" THEN ParseOk(JObj(ks, vs), d + 1)
    ELSE ParseFail

\* The value v of a member has been read.
MemberAfter(s, v, ks, vs) ==
    IF v.ok THEN MemberSep(s, SkipWs(s, v.pos), ks, Append(vs, v.val)) ELSE ParseFail

\* The key of a member has been read; c is the position of the next token.
MemberValue(s, c, ks, vs) ==
    IF c <= Len(s) /\ s[c] = ":" THEN MemberAfter(s, ParseValue(s, c + 1), ks, vs)
    ELSE ParseFail

\* The string literal read as the key of a member.
MemberColon(s, key, ks, vs) ==
    IF key.ok THEN MemberValue(s, SkipWs(s, key.pos), Append(ks, key.val.s), vs)
    ELSE ParseFail

\* A member starts at position k with its key.
MemberKey(s, k, ks, vs) ==
    IF k <= Len(s) /\ s[k] = Quote THEN MemberColon(s, ParseString(s, k), ks, vs)
    ELSE ParseFail

\* The members of an object after "{" or ","; i is the position of the next key.
ParseMembers(s, i, ks, vs) == MemberKey(s, SkipWs(s, i), ks, vs)

\* After "{": k is the position of the next token.
ObjectBody(s, k) ==
    IF k <= Len(s) /\ s[k] = "}" THEN ParseOk(JObj(<<>>, <<>>), k + 1)
    ELSE ParseMembers(s, k, <<>>, <<>>)

\* After "[": k is the position of the next token.
ListBody(s, k) ==
    IF k <= Len(s) /\ s[k] = "]" THEN ParseOk(JList(<<>>), k + 1)
    ELSE ParseElems(s, k, <<>>)

\* The digits from position j up to position e - 1.
NumberAt(s, j, e) == ParseOk(JNum(SubSeq(s, j, e - 1)), e)

\* The value whose first character is at position j.
ValueAt(s, j) ==
    IF j > Len(s) THEN ParseFail
    ELSE IF s[j] = "{" THEN ObjectBody(s, SkipWs(s, j + 1))
    ELSE IF s[j] = "[" THEN ListBody(s, SkipWs(s, j + 1))
    ELSE IF s[j] = Quote THEN ParseString(s, j)
    ELSE IF s[j] \in Digits THEN NumberAt(s, j, SkipDigits(s, j))
    ELSE IF IsWordAt(s, j, <<"n", "u", "l", "l">>) THEN ParseOk(JNull, j + 4)
    ELSE ParseFail

\* One JSON value starting at or after position i.
ParseValue(s, i) == ValueAt(s, SkipWs(s, i))

\* The value v is all the text holds.
WholeText(s, v) == IF v.ok /\ SkipWs(s, v.pos) > Len(s) THEN v ELSE ParseFail

\* json.loads: the whole text is one JSON value.
StrictParse(s) == WholeText(s, ParseValue(s, 1))

RECURSIVE MatchingBrace(_, _, _)
\* The balanced-brace scan from position i at nesting depth, stepping over string
\* literals: the position of the "}" that brings the depth back to 0, 0 if none.
MatchingBrace(s, i, depth) ==
    LET j == Find(s, i, {Quote, "{", "}"})
        q == Find(s, j + 1, {Quote})
    IN  IF j = 0 THEN 0
        ELSE IF s[j] = Quote
             THEN IF q = 0 THEN 0 ELSE MatchingBrace(s, q + 1, depth)
        ELSE IF s[j] = "{" THEN MatchingBrace(s, j + 1, depth + 1)
        ELSE IF depth = 1 THEN j
        ELSE MatchingBrace(s, j + 1, depth - 1)

\* The text from position a to the "}" matching the "{" at a, parsed strictly.
ObjectFrom(s, a, b) == IF b = 0 THEN ParseFail ELSE StrictParse(SubSeq(s, a, b))

\* The text from the first "{" (at position a) on.
ObjectAt(s, a) == IF a = 0 THEN ParseFail ELSE ObjectFrom(s, a, MatchingBrace(s, a, 0))

\* The substring from the first "{" to its matching "}", parsed strictly.
ExtractObject(s) == ObjectAt(s, Find(s, 1, {"{"}))

\* Typographic quotes become plain ASCII quotes.
NormalizeQuotes(s) ==
    [i \in 1..Len(s) |-> IF s[i] \in {"LDQUO", "RDQUO"} THEN Quote ELSE s[i]]

\* Position i of s lies inside a string literal.
InString(s, i) == Cardinality({k \in 1..(i - 1) : s[k] = Quote}) % 2 = 1

\* Position i of s holds a comma that only whitespace separates from a closing
\* "}" or "]", outside any string literal.
IsTrailingComma(s, i) ==
    /\ s[i] = ","
    /\ SkipWs(s, i + 1) <= Len(s)
    /\ s[SkipWs(s, i + 1)] \in {"}", "]"}
    /\ ~InString(s, i)

RECURSIVE StripTrailingCommas(_)
\* Trailing commas are dropped, one after the other, until none is left.
StripTrailingCommas(s) ==
    IF \E i \in 1..Len(s) : IsTrailingComma(s, i)
    THEN LET i == CHOOSE i \in 1..Len(s) :
                     IsTrailingComma(s, i) /\ \A k \in 1..(i - 1) : ~IsTrailingComma(s, k)
         IN  StripTrailingCommas(SubSeq(s, 1, i - 1) \o From(s, i + 1))
    ELSE s

\* The first of two parse results that is a success.
OrElse(a, b) == IF a.ok THEN a ELSE b

\* A text parsed strictly, else from its first "{" to the matching "}".
ParseOrExtract(s) == OrElse(StrictParse(s), ExtractObject(s))

\* safe_json_loads: strict parse of the whole text; else of the first balanced
\* {...}; else both again after quote normalisation and trailing-comma stripping.
safe_json_loads(text) ==
    OrElse(ParseOrExtract(text),
           ParseOrExtract(StripTrailingCommas(NormalizeQuotes(text))))

(***************************************************************************)
(* The objective-recommendation reconciler (src/inference/recommendation.py)*)
(* A function that may raise returns [ok, val, err]: val is its result     *)
(* when ok, err the raised error's message otherwise.                      *)
(***************************************************************************)
KeyDefiningObjectives ==
    <<"d", "e", "f", "i", "n", "i", "n", "g", "O", "b", "j", "e", "c", "t", "i", "v", "e", "s">>
KeyReason == <<"r", "e", "a", "s", "o", "n">>

Ok(v) == [ok |-> TRUE, val |-> v, err |-> "none"]
Raise(e) == [ok |-> FALSE, val |-> None, err |-> e]

\* The shortest chunk the semicolon/newline split keeps.
MinChunkLen == 12
\* The longest reason the fallback keeps.
MaxReasonLen == 600

GenericReason ==
    <<"G", "e", "n", "e", "r", "a", "t", "e", "d", " ", "d", "e", "f", "i", "n", "i", "n",
      "g", " ", "o", "b", "j", "e", "c", "t", "i", "v", "e", "s", " ", "b", "a", "s", "e",
      "d", " ", "o", "n", " ", "t", "h", "e", " ", "p", "r", "o", "v", "i", "d", "e", "d",
      " ", "o", "b", "j", "e", "c", "t", "i", "v", "e", " ", "a", "n", "d", " ", "c", "o",
      "n", "t", "e", "x", "t", ".">>

\* isinstance(x, str) and x.strip()
IsNonEmptyStr(x) == x.t = "str" /\ strip(x.s) # <<>>

RECURSIVE MarkerCandidates(_)
\* The text after the list marker of every line that starts with one, in line order.
MarkerCandidates(lines) ==
    IF lines = <<>> THEN <<>>
    ELSE LET ln == lines[1]
             m == MarkerEnd(ln)
             candidate == IF m = 0 THEN <<>> ELSE strip(From(ln, m))
         IN  (IF candidate # <<>> THEN <<candidate>> ELSE <<>>)
                 \o MarkerCandidates(Tail(lines))

RECURSIVE SelectLong(_)
\* [p for p in parts if len(p) >= 12]
SelectLong(parts) ==
    IF parts = <<>> THEN <<>>
    ELSE (IF Len(parts[1]) >= MinChunkLen THEN <<parts[1]>> ELSE <<>>)
             \o SelectLong(Tail(parts))

RECURSIVE Dedup_case_sensitive(_, _)
\* The de-duplication on the text as written (key = x instead of x.lower()).
Dedup_case_sensitive(obj, seen) ==
    IF obj = <<>> THEN <<>>
    ELSE IF obj[1] \in seen THEN Dedup_case_sensitive(Tail(obj), seen)
         ELSE <<obj[1]>> \o Dedup_case_sensitive(Tail(obj), seen \cup {obj[1]})

RECURSIVE Dedup(_, _)
\* De-duplication on the lowercased text, first occurrence kept, order preserved.
Dedup(obj, seen) ==
    IF obj = <<>> THEN <<>>
    ELSE LET key == lower(obj[1])
         IN  IF key \in seen THEN Dedup(Tail(obj), seen)
             ELSE <<obj[1]>> \o Dedup(Tail(obj), seen \cup {key})

\* The candidates with the split of lines 57-59 done whether or not a line is
\* marked (the test of line 56 left out).
Candidates_always_split(text, marked) ==
    marked \o SelectLong(SelectNonEmptyStripped(SplitOn(text, {";", NL}, 1)))

\* The candidates: those of the marked lines, or, when no line is marked, the
\* long enough pieces between semicolons and line breaks.
Candidates(text, marked) ==
    IF marked = <<>>
    THEN SelectLong(SelectNonEmptyStripped(SplitOn(text, {";", NL}, 1)))
    ELSE marked

\* parse_objectives_from_text without the marker scan of lines 47-53: only the
\* split of lines 57-59.
parse_objectives_from_text_split_only(text, n) ==
    Take(Dedup(Candidates(text, <<>>), {}), n)

parse_objectives_from_text(text, n) ==
    Take(Dedup(Candidates(text, MarkerCandidates(SelectNonEmptyStripped(splitlines(text)))),
               {}), n)

\* The regular expression \n\s*\n matches at position i of s.
BlankLineAt(s, i) ==
    s[i] = NL /\ \E j \in (i + 1)..(SkipWs(s, i + 1) - 1) : s[j] = NL

\* re.split(r"\n\s*\n", cleaned)[0]
FirstChunk(cleaned) ==
    IF \E i \in 1..Len(cleaned) : BlankLineAt(cleaned, i)
    THEN LET b == CHOOSE i \in 1..Len(cleaned) :
                     BlankLineAt(cleaned, i) /\ \A k \in 1..(i - 1) : ~BlankLineAt(cleaned, k)
         IN  SubSeq(cleaned, 1, b - 1)
    ELSE cleaned

\* The reason of the fallback: the first paragraph, or the generic reason when
\* that paragraph starts with a list marker.
FallbackReason(first) ==
    strip(Take(IF MarkerEnd(first) # 0 THEN GenericReason ELSE first, MaxReasonLen))

\* fallback_parse_non_json_output from line 82 on: objectives are those parsed.
FallbackShape(cleaned, objectives, include_reason, n) ==
    IF Len(objectives) < n
    THEN Raise("Model output was not valid JSON and fallback parsing found too few objectives")
    ELSE IF include_reason
         THEN Ok(JObj(<<KeyDefiningObjectives, KeyReason>>,
                      <<JList([i \in 1..Len(Take(objectives, n)) |-> JStr(objectives[i])]),
                        JStr(FallbackReason(strip(FirstChunk(cleaned))))>>))
    ELSE Ok(JObj(<<KeyDefiningObjectives>>,
                 <<JList([i \in 1..Len(Take(objectives, n)) |-> JStr(objectives[i])])>>))

\* fallback_parse_non_json_output from line 78 on: cleaned is the stripped text.
FallbackCleaned(cleaned, include_reason, n) ==
    IF cleaned = <<>> THEN Raise("Model returned empty text (expected JSON).")
    ELSE FallbackShape(cleaned, parse_objectives_from_text(cleaned, n), include_reason, n)

fallback_parse_non_json_output(raw_text, include_reason, n) ==
    FallbackCleaned(strip(raw_text), include_reason, n)

\* validate_and_shape_output without the truncation of line 118: every entry the
\* model listed is kept.
validate_and_shape_output_untruncated(parsed, include_reason, num_recommendations) ==
    LET defining == Get(parsed, KeyDefiningObjectives)
        shaped == [i \in 1..Len(defining.items) |-> JStr(strip(defining.items[i].s))]
        out == JObj(<<KeyDefiningObjectives>>, <<JList(shaped)>>)
        reason == Get(parsed, KeyReason)
    IN  IF parsed.t # "obj" THEN Raise("Model output must be a JSON object")
        ELSE IF \/ defining.t # "list"
                \/ ~(\A i \in 1..Len(defining.items) : IsNonEmptyStr(defining.items[i]))
             THEN Raise("Model output 'definingObjectives' must be a non-empty list of strings")
        ELSE IF Len(defining.items) < num_recommendations
             THEN Raise("Model returned too few definingObjectives")
        ELSE IF include_reason
             THEN IF ~IsNonEmptyStr(reason)
                  THEN Raise("Model output missing required non-empty 'reason'")
                  ELSE Ok(Put(out, KeyReason, JStr(strip(reason.s))))
        ELSE Ok(out)

\* validate_and_shape_output without the x.strip() of line 118: the entries are
\* returned as the model wrote them.
validate_and_shape_output_unstripped(parsed, include_reason, num_recommendations) ==
    LET defining == Get(parsed, KeyDefiningObjectives)
        shaped == [i \in 1..num_recommendations |-> defining.items[i]]
        out == JObj(<<KeyDefiningObjectives>>, <<JList(shaped)>>)
        reason == Get(parsed, KeyReason)
    IN  IF parsed.t # "obj" THEN Raise("Model output must be a JSON object")
        ELSE IF \/ defining.t # "list"
                \/ ~(\A i \in 1..Len(defining.items) : IsNonEmptyStr(defining.items[i]))
             THEN Raise("Model output 'definingObjectives' must be a non-empty list of strings")
        ELSE IF Len(defining.items) < num_recommendations
             THEN Raise("Model returned too few definingObjectives")
        ELSE IF include_reason
             THEN IF ~IsNonEmptyStr(reason)
                  THEN Raise("Model output missing required non-empty 'reason'")
                  ELSE Ok(Put(out, KeyReason, JStr(strip(reason.s))))
        ELSE Ok(out)

validate_and_shape_output(parsed, include_reason, num_recommendations) ==
    LET defining == Get(parsed, KeyDefiningObjectives)
        shaped == [i \in 1..num_recommendations |-> JStr(strip(defining.items[i].s))]
        out == JObj(<<KeyDefiningObjectives>>, <<JList(shaped)>>)
        reason == Get(parsed, KeyReason)
    IN  IF parsed.t # "obj" THEN Raise("Model output must be a JSON object")
        ELSE IF \/ defining.t # "list"
                \/ ~(\A i \in 1..Len(defining.items) : IsNonEmptyStr(defining.items[i]))
             THEN Raise("Model output 'definingObjectives' must be a non-empty list of strings")
        ELSE IF Len(defining.items) < num_recommendations
             THEN Raise("Model returned too few definingObjectives")
        ELSE IF include_reason
             THEN IF ~IsNonEmptyStr(reason)
                  THEN Raise("Model output missing required non-empty 'reason'")
                  ELSE Ok(Put(out, KeyReason, JStr(strip(reason.s))))
        ELSE Ok(out)

\* validate_and_shape_output of inference/rec_objective.py.
rec_objective_validate_and_shape_output(parsed, include_reason, num_recommendations) ==
    LET defining == Get(parsed, KeyDefiningObjectives)
        shaped == [i \in 1..num_recommendations |-> JStr(strip(defining.items[i].s))]
        out == JObj(<<KeyDefiningObjectives>>, <<JList(shaped)>>)
        reason == Get(parsed, KeyReason)
    IN  IF parsed.t # "obj" THEN Raise("Model output must be a JSON object")
        ELSE IF \/ defining.t # "list"
                \/ ~(\A i \in 1..Len(defining.items) : IsNonEmptyStr(defining.items[i]))
             THEN Raise("Model output 'definingObjectives' must be a non-empty list of strings")
        ELSE IF Len(defining.items) < num_recommendations
             THEN Raise("Model returned too few definingObjectives")
        ELSE IF include_reason
             THEN IF ~IsNonEmptyStr(reason)
                  THEN Raise("Model output missing required non-empty 'reason'")
                  ELSE Ok(Put(out, KeyReason, JStr(strip(reason.s))))
        ELSE Ok(out)

\* SimpleRecommendResponse.model_validate: definingObjectives is required and a
\* list of strings, reason is a string or None (its default).
SimpleRecommendResponse(shaped) ==
    LET defining == Get(shaped, KeyDefiningObjectives)
        reason == Get(shaped, KeyReason)
    IN  IF /\ shaped.t = "obj"
           /\ defining.t = "list"
           /\ \A i \in 1..Len(defining.items) : defining.items[i].t = "str"
           /\ reason.t \in {"str", "null"}
        THEN Ok([reason |-> reason, definingObjectives |-> defining])
        ELSE Raise("validation error for SimpleRecommendResponse")

(***************************************************************************)
(* The test-generation reconciler (src/inference/test_generation.py).      *)
(***************************************************************************)
KeyTestCases == <<"t", "e", "s", "t", "C", "a", "s", "e", "s">>
KeyDomain == <<"d", "o", "m", "a", "i", "n">>
KeyLanguage == <<"l", "a", "n", "g", "u", "a", "g", "e">>
KeyName == <<"n", "a", "m", "e">>
KeyDescription == <<"d", "e", "s", "c", "r", "i", "p", "t", "i", "o", "n">>
KeyPersona == <<"p", "e", "r", "s", "o", "n", "a">>
KeyUserVariables == <<"u", "s", "e", "r", "V", "a", "r", "i", "a", "b", "l", "e", "s">>
KeySteps == <<"s", "t", "e", "p", "s">>
KeyExpected == <<"e", "x", "p", "e", "c", "t", "e", "d">>

\* _validate_min_counts without the comparison of line 86: any non-empty list passes.
_validate_min_counts_nonempty_only(parsed, min_cases) ==
    LET tcs == Get(parsed, KeyTestCases)
    IN  IF tcs.t # "list" \/ tcs.items = <<>>
        THEN Raise("Model output must include non-empty 'testCases' list")
        ELSE Ok(None)

\* _validate_min_counts raises or returns nothing.
_validate_min_counts(parsed, min_cases) ==
    LET tcs == Get(parsed, KeyTestCases)
    IN  IF tcs.t # "list" \/ tcs.items = <<>>
        THEN Raise("Model output must include non-empty 'testCases' list")
        ELSE IF Len(tcs.items) < min_cases
             THEN Raise("Model returned fewer testCases than the minimum required")
        ELSE Ok(None)

\* A value a list[str] field accepts.
IsStrList(v) == v.t = "list" /\ \A i \in 1..Len(v.items) : v.items[i].t = "str"

\* GeneratedTestCase.model_validate: name and description are required strings,
\* persona is a string or None, userVariables a dict, steps and expected lists of
\* strings; an absent optional field takes its default.
GeneratedTestCase(tc) ==
    LET persona == Get(tc, KeyPersona)
        userVariables == IF HasKey(tc, KeyUserVariables) THEN Get(tc, KeyUserVariables)
                         ELSE JObj(<<>>, <<>>)
        steps == IF HasKey(tc, KeySteps) THEN Get(tc, KeySteps) ELSE JList(<<>>)
        expected == IF HasKey(tc, KeyExpected) THEN Get(tc, KeyExpected) ELSE JList(<<>>)
    IN  IF /\ tc.t = "obj"
           /\ Get(tc, KeyName).t = "str"
           /\ Get(tc, KeyDescription).t = "str"
           /\ persona.t \in {"str", "null"}
           /\ userVariables.t = "obj"
           /\ IsStrList(steps)
           /\ IsStrList(expected)
        THEN Ok(JObj(<<KeyName, KeyDescription, KeyPersona, KeyUserVariables, KeySteps,
                       KeyExpected>>,
                     <<Get(tc, KeyName), Get(tc, KeyDescription), persona, userVariables,
                       steps, expected>>))
        ELSE Raise("validation error for GeneratedTestCase")

\* TestGenerationResponse.model_validate: domain and language are required strings,
\* testCases a required list whose every entry validates as a GeneratedTestCase.
TestGenerationResponse(parsed) ==
    LET tcs == Get(parsed, KeyTestCases)
    IN  IF /\ parsed.t = "obj"
           /\ Get(parsed, KeyDomain).t = "str"
           /\ Get(parsed, KeyLanguage).t = "str"
           /\ tcs.t = "list"
           /\ \A i \in 1..Len(tcs.items) : GeneratedTestCase(tcs.items[i]).ok
        THEN Ok(JObj(<<KeyDomain, KeyLanguage, KeyTestCases>>,
                     <<Get(parsed, KeyDomain), Get(parsed, KeyLanguage),
                       JList([i \in 1..Len(tcs.items) |->
                                 GeneratedTestCase(tcs.items[i]).val])>>))
        ELSE Raise("validation error for TestGenerationResponse")

\* generate_test_cases without the assignments of lines 152-153: the domain and
\* the language stay the ones the model stated.
ShapeTestCases_unforced(parsed, domain, language, number_of_intents) ==
    LET counted == _validate_min_counts(parsed, number_of_intents)
    IN  IF parsed.t # "obj" THEN Raise("Model output must be a JSON object")
        ELSE IF ~counted.ok THEN counted
        ELSE TestGenerationResponse(parsed)

\* The tail of generate_test_cases, from the parsed reply on: the object check,
\* the minimum count, the forced domain and language, the response validation.
ShapeTestCases(parsed, domain, language, number_of_intents) ==
    LET counted == _validate_min_counts(parsed, number_of_intents)
        forced == Put(Put(parsed, KeyDomain, JStr(domain)), KeyLanguage, JStr(language))
    IN  IF parsed.t # "obj" THEN Raise("Model output must be a JSON object")
        ELSE IF ~counted.ok THEN counted
        ELSE TestGenerationResponse(forced)

(***************************************************************************)
(* The replies of the model.  A reply is text; the replies tried are JSON  *)
(* documents written the ways json.dumps writes them (on one line, or      *)
(* indented), JSON inside prose, damaged JSON and plain prose.             *)
(***************************************************************************)
RECURSIVE Spaces(_)
Spaces(n) == IF n = 0 THEN <<>> ELSE <<" ">> \o Spaces(n - 1)

RECURSIVE Dumps(_, _, _)
RECURSIVE DumpsItems(_, _, _, _)

\* The entries of a list (keys = <<>>) or the members of an object from entry i on,
\* each written at the given indentation (0: on one line).
DumpsItems(v, i, indent, depth) ==
    LET key == IF v.t = "obj" THEN <<Quote>> \o v.keys[i] \o <<Quote, ":", " ">> ELSE <<>>
        lead == IF indent = 0 THEN <<>> ELSE Spaces(indent * depth)
        sep == IF indent = 0 THEN <<",", " ">> ELSE <<",", NL>>
    IN  IF i > Len(v.items) THEN <<>>
        ELSE lead \o key \o Dumps(v.items[i], indent, depth)
                 \o (IF i < Len(v.items) THEN sep ELSE <<>>)
                 \o DumpsItems(v, i + 1, indent, depth)

\* json.dumps(v, indent=indent) for a value nested depth levels deep.
Dumps(v, indent, depth) ==
    LET open == IF v.t = "obj" THEN "{" ELSE "["
        close == IF v.t = "obj" THEN "}" ELSE "]"
    IN  IF v.t = "str" THEN <<Quote>> \o v.s \o <<Quote>>
        ELSE IF v.t = "num" THEN v.s
        ELSE IF v.t = "null" THEN <<"n", "u", "l", "l">>
        ELSE IF v.items = <<>> THEN <<open, close>>
        ELSE IF indent = 0 THEN <<open>> \o DumpsItems(v, 1, 0, 0) \o <<close>>
        ELSE <<open, NL>> \o DumpsItems(v, 1, indent, depth + 1)
                 \o <<NL>> \o Spaces(indent * depth) \o <<close>>

\* The lists of length 0..n over the entries of pool.
RECURSIVE ListsUpTo(_, _)
ListsUpTo(pool, n) ==
    IF n = 0 THEN {<<>>}
    ELSE LET shorter == ListsUpTo(pool, n - 1)
         IN  shorter \cup {Append(l, e) : l \in shorter, e \in pool}

\* An object of the members whose value is given (Absent leaves the key out).
Absent == [t |-> "absent", s |-> <<>>, items |-> <<>>, keys |-> <<>>]
RECURSIVE ObjOf(_, _)
ObjOf(ks, vs) ==
    IF ks = <<>> THEN JObj(<<>>, <<>>)
    ELSE LET rest == ObjOf(Tail(ks), Tail(vs))
         IN  IF vs[1] = Absent THEN rest
             ELSE JObj(<<ks[1]>> \o rest.keys, <<vs[1]>> \o rest.items)

\* The objectives a reply may list: two proper ones (one with blanks around it),
\* a blank string and a number.
ObjectivePool ==
    {JStr(<<"A", "b">>), JStr(<<" ", "c", "d", " ">>), JStr(<<" ">>), JNum(<<"7">>)}
\* The reasons a reply may give: none, a proper one, a blank one, a number.
ReasonPool ==
    {Absent, JStr(<<" ", "w", "h", "y">>), JStr(<<" ">>), JNum(<<"7">>)}

RecReplyValues ==
    {ObjOf(<<KeyReason, KeyDefiningObjectives>>, <<r, d>>) :
        r \in ReasonPool,
        d \in {Absent, JStr(<<"A", "b">>)}
                \cup {JList(l) : l \in ListsUpTo(ObjectivePool, MaxItems)}}

\* "Sure: " before and " Done" after a JSON document.
InProse(doc) == <<"S", "u", "r", "e", ":", " ">> \o doc \o <<" ", "D", "o", "n", "e">>

RecJsonReplies ==
    UNION {{Dumps(v, 0, 0), Dumps(v, 2, 0), InProse(Dumps(v, 0, 0))} : v \in RecReplyValues}
        \cup {Dumps(JList(<<JStr(<<"A", "b">>)>>), 0, 0)}

\* The lines of a plain-prose reply.
LinePool ==
    {<<"1", ".", " ", "A", "b">>,
     <<"2", ")", " ", "a", "B">>,
     <<"-", " ", "C", "d">>,
     <<Bullet, " ", "E", "f">>,
     <<"O", "b", "j", "e", "c", "t", "i", "v", "e", "s", " ", "b", "e", "l", "o", "w">>,
     <<>>}

ProseReplies == {Join(l, <<NL>>) : l \in ListsUpTo(LinePool, MaxLines)}

\* Replies with no usable text.
BlankReplies == {<<>>, <<" ">>, <<NL, " ">>}

RecReplies == RecJsonReplies \cup ProseReplies \cup BlankReplies

\* The test cases a reply may hold: a minimal one, a complete one, and one that
\* lacks its description.  Lists are drawn from the minimal and the malformed one;
\* the complete one comes alone and after the minimal one.
CaseMinimal ==
    JObj(<<KeyName, KeyDescription>>, <<JStr(<<"a">>), JStr(<<"b">>)>>)
CaseComplete ==
    JObj(<<KeyName, KeyDescription, KeyPersona, KeyUserVariables, KeySteps, KeyExpected>>,
         <<JStr(<<"c">>), JStr(<<"d">>), JNull, JObj(<<"k">>, <<JStr(<<"v">>)>>),
           JList(<<JStr(<<"s">>)>>), JList(<<JStr(<<"e">>)>>)>>)
CaseNoDescription == JObj(<<KeyName>>, <<JStr(<<"a">>)>>)
CasePool == {CaseMinimal, CaseNoDescription}
CaseLists ==
    ListsUpTo(CasePool, MaxItems) \cup {<<CaseComplete>>, <<CaseMinimal, CaseComplete>>}

\* The domain and language a reply may state: none, or values the request may
\* or may not have asked for.
MetaPool ==
    {<<Absent, Absent>>,
     <<JStr(<<"a", "b">>), JStr(<<"e", "n">>)>>,
     <<JStr(<<"z", "z">>), JStr(<<"d", "e">>)>>}

TgReplyValues ==
    {ObjOf(<<KeyDomain, KeyLanguage, KeyTestCases>>, <<m[1], m[2], c>>) :
        m \in MetaPool,
        c \in {Absent, JStr(<<"x">>)} \cup {JList(l) : l \in CaseLists}}

\* A document with a comma before its closing brace.
WithTrailingComma(doc) == SubSeq(doc, 1, Len(doc) - 1) \o <<",", "}">>
\* A document cut off before its closing brace.
Truncated(doc) == SubSeq(doc, 1, Len(doc) - 1)
\* A document with blanks around it.
Padded(doc) == <<" ">> \o doc \o <<NL>>

TgJsonReplies ==
    {Dumps(v, 0, 0) : v \in TgReplyValues}
        \cup {WithTrailingComma(Dumps(v, 0, 0)) :
                 v \in {w \in TgReplyValues : ~HasKey(w, KeyDomain)}}
        \cup {Dumps(JList(<<CaseMinimal>>), 0, 0),
              Padded(Dumps(ObjOf(<<KeyTestCases>>, <<JList(<<CaseMinimal, CaseComplete>>)>>), 0, 0))}

\* Replies no strategy of the parser reads.
TgBrokenReplies ==
    {Truncated(Dumps(ObjOf(<<KeyTestCases>>, <<JList(<<CaseMinimal>>)>>), 0, 0)),
     Padded(Truncated(Dumps(ObjOf(<<KeyDomain>>, <<JStr(<<"z", "z">>)>>), 0, 0))),
     <<"S", "o", "r", "r", "y">>}

TgReplies == TgJsonReplies \cup TgBrokenReplies \cup BlankReplies

(***************************************************************************)
(* The model-call collaborator.  invoke_model raises (a transport error)   *)
(* or returns an envelope; extract_text_from_anthropic_bedrock returns the *)
(* envelope's text, None when it holds none.                               *)
(***************************************************************************)
TransportError == [raised |-> TRUE, text |-> None]
Envelope(text) == [raised |-> FALSE, text |-> text]

ModelOutcomes(replies) ==
    {TransportError, Envelope(None)} \cup {Envelope(JStr(t)) : t \in replies}

extract_text_from_anthropic_bedrock(resp) == resp.text

\* The check of line 160 without its second half: only "not raw_text".
NoModelText_unstripped(raw) == raw = None \/ raw.s = <<>>

\* not raw_text or not raw_text.strip()
NoModelText(raw) == raw = None \/ strip(raw.s) = <<>>

\* (raw or "").strip(), the text _invoke_bedrock_text returns
InvokedText(resp) ==
    LET raw == extract_text_from_anthropic_bedrock(resp)
    IN  IF raw = None THEN <<>> ELSE strip(raw.s)

(***************************************************************************)
(* The requests.  Both endpoints' requests are records of one shape; a     *)
(* field the endpoint does not have holds its empty value.                 *)
(***************************************************************************)
Domains == {<<"a", "b">>, <<"c", "d">>}
Languages == {<<"e", "n">>, <<"f", "r">>}

RecommendationRequests ==
    {[endpoint |-> "recommendation", includeReason |-> b, numRecommendations |-> n,
      domain |-> <<>>, language |-> <<>>, number_of_intents |-> 0] :
        b \in BOOLEAN, n \in 1..MaxN}

TestGenerationRequests ==
    {[endpoint |-> "test-generation", includeReason |-> FALSE, numRecommendations |-> 0,
      domain |-> d, language |-> l, number_of_intents |-> k] :
        d \in Domains, l \in Languages, k \in 1..MaxK}

NoRequest ==
    [endpoint |-> "none", includeReason |-> FALSE, numRecommendations |-> 0,
     domain |-> <<>>, language |-> <<>>, number_of_intents |-> 0]

\* The requests in flight at once.
Requests == {"r1", "r2"}

(***************************************************************************)
(* The state: per request in flight, the request, the handler's position,  *)
(* the calls made to the model and the outcomes they had, the text being   *)
(* reconciled, the parsed reply, the shaped result, the HTTP response, and *)
(* the steps of the reconciler that ran.                                   *)
(***************************************************************************)
VARIABLES req, pc, calls, replies, raw_text, parsed, shaped, http, steps

vars == <<req, pc, calls, replies, raw_text, parsed, shaped, http, steps>>

NoResponse == [status |-> 0, body |-> None, detail |-> "none"]

Init ==
    /\ req = [r \in Requests |-> NoRequest]
    /\ pc = [r \in Requests |-> "idle"]
    /\ calls = [r \in Requests |-> <<>>]
    /\ replies = [r \in Requests |-> <<>>]
    /\ raw_text = [r \in Requests |-> <<>>]
    /\ parsed = [r \in Requests |-> None]
    /\ shaped = [r \in Requests |-> None]
    /\ http = [r \in Requests |-> NoResponse]
    /\ steps = [r \in Requests |-> <<>>]

\* A call of invoke_model: the system prompt, and the user text, which is the
\* serialized request (payload) or a text.
PayloadCall(system, payload) == [system |-> system, payload |-> payload, text |-> <<>>]
TextCall(system, text) == [system |-> system, payload |-> NoRequest, text |-> text]

\* An except clause that answers with an empty success instead of the error.
UpstreamFailure_swallowed(e) ==
    [status |-> 200,
     body |-> JObj(<<KeyDefiningObjectives, KeyTestCases>>, <<JList(<<>>), JList(<<>>)>>),
     detail |-> "none"]

\* The handler's except clause: any error becomes HTTPException(502, str(e)).
UpstreamFailure(e) == [status |-> 502, body |-> None, detail |-> e]

\* The handler's return: the response model, serialized.
Success(body) == [status |-> 200, body |-> body, detail |-> "none"]

\* The serialization without response_model_exclude_none: a None reason is written.
SerializeRecommendation_keep_none(resp) ==
    JObj(<<KeyReason, KeyDefiningObjectives>>, <<resp.reason, resp.definingObjectives>>)

\* response_model_exclude_none=True: a None reason is left out of the body.
SerializeRecommendation(resp) ==
    IF resp.reason = None
    THEN JObj(<<KeyDefiningObjectives>>, <<resp.definingObjectives>>)
    ELSE JObj(<<KeyReason, KeyDefiningObjectives>>, <<resp.reason, resp.definingObjectives>>)

\* The request fails with error e: the handler answers 502.
Fail(r, e) ==
    /\ http' = [http EXCEPT ![r] = UpstreamFailure(e)]
    /\ pc' = [pc EXCEPT ![r] = "done"]

\* handle_recommendation / handle_test_generation is called with a validated request.
Receive(r) ==
    /\ pc[r] = "idle"
    /\ \E q \in RecommendationRequests \cup TestGenerationRequests :
          /\ req' = [req EXCEPT ![r] = q]
          /\ pc' = [pc EXCEPT ![r] =
                       IF q.endpoint = "recommendation" THEN "rec_invoke" ELSE "tg_invoke"]
    /\ UNCHANGED <<calls, replies, raw_text, parsed, shaped, http, steps>>

\* recommend_objective, lines 157-161: the model call, the text, the empty check.
RecInvoke(r) ==
    /\ pc[r] = "rec_invoke"
    /\ \E resp \in ModelOutcomes(RecReplies) :
          \E raw \in {extract_text_from_anthropic_bedrock(resp)} :
              /\ calls' = [calls EXCEPT ![r] =
                              Append(@, PayloadCall("SYSTEM_PROMPT_SIMPLE", req[r]))]
              /\ replies' = [replies EXCEPT ![r] = Append(@, resp)]
              /\ steps' = [steps EXCEPT ![r] = Append(@, "invoke")]
              /\ IF resp.raised
                 THEN Fail(r, "transport error") /\ UNCHANGED raw_text
                 ELSE IF NoModelText(raw)
                      THEN /\ Fail(r, "Bedrock response did not contain model text")
                           /\ UNCHANGED raw_text
                 ELSE /\ raw_text' = [raw_text EXCEPT ![r] = raw.s]
                      /\ pc' = [pc EXCEPT ![r] = "rec_parse"]
                      /\ UNCHANGED http
    /\ UNCHANGED <<req, parsed, shaped>>

\* The try block after the parse: the validation runs when the parse succeeded.
ValidateParsed(p, include_reason, num_recommendations) ==
    IF p.ok THEN validate_and_shape_output(p.val, include_reason, num_recommendations)
    ELSE Raise("no JSON could be parsed")

\* The try block with its result ignored: every reply goes to the fallback.
RecStrict_skipped(r) ==
    /\ pc[r] = "rec_parse"
    /\ \E p \in {safe_json_loads(raw_text[r])} :
          /\ parsed' = [parsed EXCEPT ![r] = p.val]
          /\ steps' = [steps EXCEPT ![r] = Append(@, "parse")]
          /\ pc' = [pc EXCEPT ![r] = "rec_fallback"]
    /\ UNCHANGED <<req, calls, replies, raw_text, http, shaped>>

\* recommend_objective, lines 163-171: the try block.  An exception raised by the
\* parse or by the validation sends the request to the fallback.
RecStrict(r) ==
    /\ pc[r] = "rec_parse"
    /\ \E p \in {safe_json_loads(raw_text[r])} :
       \E v \in {ValidateParsed(p, req[r].includeReason, req[r].numRecommendations)} :
          /\ parsed' = [parsed EXCEPT ![r] = p.val]
          /\ steps' = [steps EXCEPT ![r] = Append(@, "parse")]
          /\ IF v.ok
             THEN /\ shaped' = [shaped EXCEPT ![r] = v.val]
                  /\ pc' = [pc EXCEPT ![r] = "rec_emit"]
             ELSE /\ pc' = [pc EXCEPT ![r] = "rec_fallback"]
                  /\ UNCHANGED shaped
    /\ UNCHANGED <<req, calls, replies, raw_text, http>>

\* The except block reading a text buffer the requests share (here: the buffer of
\* the first request) instead of the request's own text.
RecFallback_shared(r) ==
    /\ pc[r] = "rec_fallback"
    /\ \E v \in {fallback_parse_non_json_output(raw_text["r1"], req[r].includeReason,
                                                 req[r].numRecommendations)} :
          /\ steps' = [steps EXCEPT ![r] = Append(@, "fallback")]
          /\ IF v.ok
             THEN /\ shaped' = [shaped EXCEPT ![r] = v.val]
                  /\ pc' = [pc EXCEPT ![r] = "rec_emit"]
                  /\ UNCHANGED http
             ELSE Fail(r, v.err) /\ UNCHANGED shaped
    /\ UNCHANGED <<req, calls, replies, raw_text, parsed>>

\* recommend_objective, lines 172-177: the except block.
RecFallback(r) ==
    /\ pc[r] = "rec_fallback"
    /\ \E v \in {fallback_parse_non_json_output(raw_text[r], req[r].includeReason,
                                                 req[r].numRecommendations)} :
          /\ steps' = [steps EXCEPT ![r] = Append(@, "fallback")]
          /\ IF v.ok
             THEN /\ shaped' = [shaped EXCEPT ![r] = v.val]
                  /\ pc' = [pc EXCEPT ![r] = "rec_emit"]
                  /\ UNCHANGED http
             ELSE Fail(r, v.err) /\ UNCHANGED shaped
    /\ UNCHANGED <<req, calls, replies, raw_text, parsed>>

\* recommend_objective, line 179, and the handler's return.
RecEmit(r) ==
    /\ pc[r] = "rec_emit"
    /\ \E v \in {SimpleRecommendResponse(shaped[r])} :
          /\ steps' = [steps EXCEPT ![r] = Append(@, "emit")]
          /\ IF v.ok
             THEN /\ http' = [http EXCEPT ![r] = Success(SerializeRecommendation(v.val))]
                  /\ pc' = [pc EXCEPT ![r] = "done"]
             ELSE Fail(r, v.err)
    /\ UNCHANGED <<req, calls, replies, raw_text, parsed, shaped>>

\* generate_test_cases, lines 135-143: the generation call and the empty check.
TgInvoke(r) ==
    /\ pc[r] = "tg_invoke"
    /\ \E resp \in ModelOutcomes(TgReplies) :
          \E gen_text \in {InvokedText(resp)} :
              /\ calls' = [calls EXCEPT ![r] =
                              Append(@, PayloadCall("SYSTEM_PROMPT_TEST_GENERATION", req[r]))]
              /\ replies' = [replies EXCEPT ![r] = Append(@, resp)]
              /\ steps' = [steps EXCEPT ![r] = Append(@, "invoke")]
              /\ IF resp.raised
                 THEN Fail(r, "transport error") /\ UNCHANGED raw_text
                 ELSE IF gen_text = <<>>
                      THEN /\ Fail(r, "Bedrock response did not contain model text")
                           /\ UNCHANGED raw_text
                 ELSE /\ raw_text' = [raw_text EXCEPT ![r] = gen_text]
                      /\ pc' = [pc EXCEPT ![r] = "tg_parse"]
                      /\ UNCHANGED http
    /\ UNCHANGED <<req, parsed, shaped>>

\* _parse_or_repair_json re-issuing the generation call when the parse fails.
TgParse_reissue(r) ==
    /\ pc[r] = "tg_parse"
    /\ \E p \in {safe_json_loads(raw_text[r])} :
          /\ steps' = [steps EXCEPT ![r] = Append(@, "parse")]
          /\ IF p.ok
             THEN /\ parsed' = [parsed EXCEPT ![r] = p.val]
                  /\ pc' = [pc EXCEPT ![r] = "tg_shape"]
             ELSE /\ pc' = [pc EXCEPT ![r] = "tg_invoke"]
                  /\ UNCHANGED parsed
    /\ UNCHANGED <<req, calls, replies, raw_text, shaped, http>>

\* _parse_or_repair_json, lines 111-113: the try block.
TgParse(r) ==
    /\ pc[r] = "tg_parse"
    /\ \E p \in {safe_json_loads(raw_text[r])} :
          /\ steps' = [steps EXCEPT ![r] = Append(@, "parse")]
          /\ IF p.ok
             THEN /\ parsed' = [parsed EXCEPT ![r] = p.val]
                  /\ pc' = [pc EXCEPT ![r] = "tg_shape"]
             ELSE /\ pc' = [pc EXCEPT ![r] = "tg_repair"]
                  /\ UNCHANGED parsed
    /\ UNCHANGED <<req, calls, replies, raw_text, shaped, http>>

\* The repair step repeated while the repaired text does not parse.
TgRepair_retry(r) ==
    /\ pc[r] = "tg_repair"
    /\ \E resp \in ModelOutcomes(TgReplies) :
          \E repaired_text \in {InvokedText(resp)} :
          \E p \in {safe_json_loads(repaired_text)} :
              /\ calls' = [calls EXCEPT ![r] =
                              Append(@, TextCall("SYSTEM_PROMPT_JSON_REPAIR", raw_text[r]))]
              /\ replies' = [replies EXCEPT ![r] = Append(@, resp)]
              /\ steps' = [steps EXCEPT ![r] = Append(@, "repair")]
              /\ IF resp.raised
                 THEN Fail(r, "transport error") /\ UNCHANGED parsed
                 ELSE IF repaired_text = <<>> \/ ~p.ok
                      THEN UNCHANGED <<pc, http, parsed>>
                 ELSE /\ parsed' = [parsed EXCEPT ![r] = p.val]
                      /\ pc' = [pc EXCEPT ![r] = "tg_shape"]
                      /\ UNCHANGED http
    /\ UNCHANGED <<req, raw_text, shaped>>

\* The repair step parsing the original text again instead of the repaired one.
TgRepair_reparses_original(r) ==
    /\ pc[r] = "tg_repair"
    /\ \E resp \in ModelOutcomes(TgReplies) :
          \E repaired_text \in {InvokedText(resp)} :
          \E p \in {safe_json_loads(raw_text[r])} :
              /\ calls' = [calls EXCEPT ![r] =
                              Append(@, TextCall("SYSTEM_PROMPT_JSON_REPAIR", raw_text[r]))]
              /\ replies' = [replies EXCEPT ![r] = Append(@, resp)]
              /\ steps' = [steps EXCEPT ![r] = Append(@, "repair")]
              /\ IF resp.raised
                 THEN Fail(r, "transport error") /\ UNCHANGED parsed
                 ELSE IF repaired_text = <<>>
                      THEN /\ Fail(r, "Model returned invalid JSON and repair step returned empty text.")
                           /\ UNCHANGED parsed
                 ELSE IF ~p.ok
                      THEN Fail(r, "repaired text is not valid JSON") /\ UNCHANGED parsed
                 ELSE /\ parsed' = [parsed EXCEPT ![r] = p.val]
                      /\ pc' = [pc EXCEPT ![r] = "tg_shape"]
                      /\ UNCHANGED http
    /\ UNCHANGED <<req, raw_text, shaped>>

\* _parse_or_repair_json, lines 113-123: the except block, one repair call.
TgRepair(r) ==
    /\ pc[r] = "tg_repair"
    /\ \E resp \in ModelOutcomes(TgReplies) :
          \E repaired_text \in {InvokedText(resp)} :
          \E p \in {safe_json_loads(repaired_text)} :
              /\ calls' = [calls EXCEPT ![r] =
                              Append(@, TextCall("SYSTEM_PROMPT_JSON_REPAIR", raw_text[r]))]
              /\ replies' = [replies EXCEPT ![r] = Append(@, resp)]
              /\ steps' = [steps EXCEPT ![r] = Append(@, "repair")]
              /\ IF resp.raised
                 THEN Fail(r, "transport error") /\ UNCHANGED parsed
                 ELSE IF repaired_text = <<>>
                      THEN /\ Fail(r, "Model returned invalid JSON and repair step returned empty text.")
                           /\ UNCHANGED parsed
                 ELSE IF ~p.ok
                      THEN Fail(r, "repaired text is not valid JSON") /\ UNCHANGED parsed
                 ELSE /\ parsed' = [parsed EXCEPT ![r] = p.val]
                      /\ pc' = [pc EXCEPT ![r] = "tg_shape"]
                      /\ UNCHANGED http
    /\ UNCHANGED <<req, raw_text, shaped>>

\* The shaping sending a reply it rejects to the repair call.
TgShape_repairs(r) ==
    /\ pc[r] = "tg_shape"
    /\ \E v \in {ShapeTestCases(parsed[r], req[r].domain, req[r].language,
                                 req[r].number_of_intents)} :
          /\ steps' = [steps EXCEPT ![r] = Append(@, "shape")]
          /\ IF v.ok
             THEN /\ shaped' = [shaped EXCEPT ![r] = v.val]
                  /\ http' = [http EXCEPT ![r] = Success(v.val)]
                  /\ pc' = [pc EXCEPT ![r] = "done"]
             ELSE /\ pc' = [pc EXCEPT ![r] = "tg_repair"]
                  /\ UNCHANGED <<shaped, http>>
    /\ UNCHANGED <<req, calls, replies, raw_text, parsed>>

\* generate_test_cases, lines 146-155, and the handler's return.
TgShape(r) ==
    /\ pc[r] = "tg_shape"
    /\ \E v \in {ShapeTestCases(parsed[r], req[r].domain, req[r].language,
                                 req[r].number_of_intents)} :
          /\ steps' = [steps EXCEPT ![r] = Append(@, "shape")]
          /\ IF v.ok
             THEN /\ shaped' = [shaped EXCEPT ![r] = v.val]
                  /\ http' = [http EXCEPT ![r] = Success(v.val)]
                  /\ pc' = [pc EXCEPT ![r] = "done"]
             ELSE Fail(r, v.err) /\ UNCHANGED shaped
    /\ UNCHANGED <<req, calls, replies, raw_text, parsed>>

Step(r) ==
    \/ Receive(r)
    \/ RecInvoke(r)
    \/ RecStrict(r)
    \/ RecFallback(r)
    \/ RecEmit(r)
    \/ TgInvoke(r)
    \/ TgParse(r)
    \/ TgRepair(r)
    \/ TgShape(r)

\* One request is handled.
Next == Step("r1")

Spec == Init /\ [][Next]_vars


(***************************************************************************)
(* The reconcilers as functions of the request and of the outcomes of the  *)
(* model calls: they read nothing else.  resp is the outcome of the one    *)
(* call of recommend_objective; outcomes is the sequence of the outcomes   *)
(* of the calls generate_test_cases makes (the generation call, then the   *)
(* repair call if there is one).                                           *)
(***************************************************************************)
\* SimpleRecommendResponse.model_validate(shaped) of line 179, for the fallback's result.
FallbackResponse(f) == IF f.ok THEN SimpleRecommendResponse(f.val) ELSE f

\* The handler of /recommendation around its reconciler (main.py, lines 120-123).
ResponseOrFailure(v) ==
    IF v.ok THEN Success(SerializeRecommendation(v.val)) ELSE UpstreamFailure(v.err)

\* recommend_objective, lines 171-179: the except block and the model validation.
ShapedOrFallback(q, text, v) ==
    IF v.ok THEN SimpleRecommendResponse(v.val)
    ELSE FallbackResponse(fallback_parse_non_json_output(text, q.includeReason,
                                                         q.numRecommendations))

\* recommend_objective of inference/recommendation.py.
recommend_objective(q, resp) ==
    IF resp.raised THEN Raise("transport error")
    ELSE IF NoModelText(extract_text_from_anthropic_bedrock(resp))
         THEN Raise("Bedrock response did not contain model text")
    ELSE ShapedOrFallback(q, extract_text_from_anthropic_bedrock(resp).s,
                          ValidateParsed(safe_json_loads(extract_text_from_anthropic_bedrock(resp).s),
                                         q.includeReason, q.numRecommendations))

\* handle_recommendation: the response, or HTTPException(502, str(e)).
handle_recommendation(q, resp) ==
    ResponseOrFailure(recommend_objective(q, resp))

\* generate_test_cases, lines 146-155, on the result of _parse_or_repair_json.
ShapeParsed(q, p) ==
    IF p.ok
    THEN ShapeTestCases(p.val, q.domain, q.language, q.number_of_intents)
    ELSE Raise("repaired text is not valid JSON")

\* _parse_or_repair_json, lines 113-123: the except block.
RepairOrRaise(q, resp) ==
    IF resp.raised THEN Raise("transport error")
    ELSE IF InvokedText(resp) = <<>>
         THEN Raise("Model returned invalid JSON and repair step returned empty text.")
    ELSE ShapeParsed(q, safe_json_loads(InvokedText(resp)))

\* _parse_or_repair_json, lines 111-113, and what follows it.
ParseOrRepair(q, p, outcomes) ==
    IF p.ok THEN ShapeParsed(q, p) ELSE RepairOrRaise(q, outcomes[2])

\* generate_test_cases of inference/test_generation.py.
generate_test_cases(q, outcomes) ==
    IF outcomes[1].raised THEN Raise("transport error")
    ELSE IF InvokedText(outcomes[1]) = <<>>
         THEN Raise("Bedrock response did not contain model text")
    ELSE ParseOrRepair(q, safe_json_loads(InvokedText(outcomes[1])), outcomes)

\* handle_test_generation: the response, or HTTPException(502, str(e)).
handle_test_generation(q, outcomes) ==
    IF generate_test_cases(q, outcomes).ok
    THEN Success(generate_test_cases(q, outcomes).val)
    ELSE UpstreamFailure(generate_test_cases(q, outcomes).err)

(***************************************************************************)
(* The strict-only variant, inference/rec_objective.py: the same call and  *)
(* the same validation, and no fallback.                                   *)
(***************************************************************************)
\* SimpleRecommendResponse.model_validate(shaped) of rec_objective.py, line 69.
StrictResponse(v) == IF v.ok THEN SimpleRecommendResponse(v.val) ELSE v

\* recommend_objective of rec_objective.py, lines 62-69: an error of the parse
\* or of the validation leaves the function.
StrictShaped(q, p) ==
    IF ~p.ok THEN Raise("no JSON could be parsed")
    ELSE StrictResponse(rec_objective_validate_and_shape_output(p.val, q.includeReason,
                                                                q.numRecommendations))

\* recommend_objective of inference/rec_objective.py.
rec_objective_recommend_objective(q, resp) ==
    IF resp.raised THEN Raise("transport error")
    ELSE IF NoModelText(extract_text_from_anthropic_bedrock(resp))
         THEN Raise("Bedrock response did not contain model text")
    ELSE StrictShaped(q, safe_json_loads(extract_text_from_anthropic_bedrock(resp).s))

(***************************************************************************)
(* Several requests in flight: the steps of the requests interleave.  The  *)
(* requests and the model's replies are drawn from a part of those of the  *)
(* one-request specification.                                              *)
(***************************************************************************)
ConcRequests ==
    {q \in RecommendationRequests : q.numRecommendations = 1}
        \cup {q \in TestGenerationRequests :
                 q.number_of_intents = 1 /\ q.domain = <<"a", "b">> /\ q.language = <<"e", "n">>}

ConcTexts ==
    {Dumps(ObjOf(<<KeyReason, KeyDefiningObjectives>>,
                 <<JStr(<<" ", "w", "h", "y">>), JList(<<JStr(<<" ", "c", "d", " ">>)>>)>>), 0, 0),
     Dumps(ObjOf(<<KeyReason, KeyDefiningObjectives>>, <<Absent, JList(<<>>)>>), 0, 0),
     <<"1", ".", " ", "A", "b">>,
     <<" ">>,
     Dumps(ObjOf(<<KeyDomain, KeyLanguage, KeyTestCases>>,
                 <<JStr(<<"z", "z">>), JStr(<<"d", "e">>), JList(<<CaseMinimal>>)>>), 0, 0),
     Dumps(ObjOf(<<KeyDomain, KeyLanguage, KeyTestCases>>,
                 <<Absent, Absent, JList(<<CaseNoDescription>>)>>), 0, 0),
     <<"S", "o", "r", "r", "y">>}

ConcOutcomes == {TransportError, Envelope(None)} \cup {Envelope(JStr(t)) : t \in ConcTexts}

InConcWorld ==
    \A r \in Requests :
        /\ req[r] \in ConcRequests \cup {NoRequest}
        /\ \A i \in 1..Len(replies[r]) : replies[r][i] \in ConcOutcomes

\* Any request in flight takes its next step.
NextConc ==
    \E r \in Requests :
        \/ Receive(r) /\ InConcWorld'
        \/ RecInvoke(r) /\ InConcWorld'
        \/ RecStrict(r)
        \/ RecFallback(r)
        \/ RecEmit(r)
        \/ TgInvoke(r) /\ InConcWorld'
        \/ TgParse(r)
        \/ TgRepair(r) /\ InConcWorld'
        \/ TgShape(r)

SpecConc == Init /\ [][NextConc]_vars
(***************************************************************************)
(* Properties.                                                             *)
(***************************************************************************)
IsRec(r) == req[r].endpoint = "recommendation"
IsTg(r) == req[r].endpoint = "test-generation"
Done(r) == pc[r] = "done"
Succeeded(r) == pc[r] = "done" /\ http[r].status = 200
Failed(r) == pc[r] = "done" /\ http[r].status = 502

\* The definingObjectives / testCases of a JSON object.
Defining(v) == Get(v, KeyDefiningObjectives)
Cases(v) == Get(v, KeyTestCases)

\* The first n entries of a list of strings, trimmed.
FirstTrimmed(items, n) == [i \in 1..n |-> JStr(strip(items[i].s))]

\* The model's reply was read as a JSON object whose definingObjectives is a list.
ParsedObjectives(r) ==
    IsRec(r) /\ parsed[r].t = "obj" /\ Defining(parsed[r]).t = "list"

\* C1: a recommendation request whose model reply parses as a JSON object with
\* fewer than numRecommendations definingObjectives ends in a failure, never in a
\* success response.
C1_UnderGenerationFails ==
    \A r \in Requests :
        /\ Done(r)
        /\ ParsedObjectives(r)
        /\ Len(Defining(parsed[r]).items) < req[r].numRecommendations
        => Failed(r)

\* C2: a recommendation request with includeReason = true whose model reply is a
\* JSON object without a non-empty string 'reason' ends in a failure.
C2_MissingReasonFails ==
    \A r \in Requests :
        /\ Done(r)
        /\ IsRec(r)
        /\ req[r].includeReason
        /\ parsed[r].t = "obj"
        /\ ~IsNonEmptyStr(Get(parsed[r], KeyReason))
        => Failed(r)

\* The request succeeded with the first numRecommendations entries of the
\* model's list, trimmed, in the model's order.
TruncatedToRequest(r) ==
    /\ Succeeded(r)
    /\ Defining(http[r].body) =
           JList(FirstTrimmed(Defining(parsed[r]).items, req[r].numRecommendations))

\* C3 as stated: whenever the reply's definingObjectives list contains at least
\* numRecommendations valid strings, the request succeeds with the first
\* numRecommendations entries, trimmed.
C3_TruncationAsStated ==
    \A r \in Requests :
        /\ Done(r)
        /\ ParsedObjectives(r)
        /\ Cardinality({i \in 1..Len(Defining(parsed[r]).items) :
                           IsNonEmptyStr(Defining(parsed[r]).items[i])})
               >= req[r].numRecommendations
        => TruncatedToRequest(r)

\* C3, amended: whenever the reply is a JSON object whose definingObjectives list
\* has at least numRecommendations entries, every entry a non-empty string after
\* trimming, and which carries a non-empty string reason when includeReason is
\* true, the request succeeds and definingObjectives is exactly the first
\* numRecommendations entries, trimmed, in the model's order.
C3_Truncation ==
    \A r \in Requests :
        /\ Done(r)
        /\ ParsedObjectives(r)
        /\ Len(Defining(parsed[r]).items) >= req[r].numRecommendations
        /\ \A i \in 1..Len(Defining(parsed[r]).items) :
              IsNonEmptyStr(Defining(parsed[r]).items[i])
        /\ req[r].includeReason => IsNonEmptyStr(Get(parsed[r], KeyReason))
        => /\ TruncatedToRequest(r)
           /\ Len(Defining(http[r].body).items) = req[r].numRecommendations

\* A success that dropped an entry and trimmed another.
C3_Witness ==
    \E r \in Requests :
        /\ Succeeded(r)
        /\ ParsedObjectives(r)
        /\ Len(Defining(parsed[r]).items) > req[r].numRecommendations
        /\ Defining(parsed[r]).items[1].s # strip(Defining(parsed[r]).items[1].s)
        /\ steps[r] = <<"invoke", "parse", "emit">>

\* C4: every successful recommendation response carries 'reason', a non-empty
\* string, if and only if the request's includeReason was true.
C4_ReasonIffRequested ==
    \A r \in Requests :
        Succeeded(r) /\ IsRec(r)
        => /\ HasKey(http[r].body, KeyReason) <=> req[r].includeReason
           /\ HasKey(http[r].body, KeyReason) => IsNonEmptyStr(Get(http[r].body, KeyReason))

\* A success without reason although the model supplied one.
C4_Witness ==
    \E r \in Requests :
        /\ Succeeded(r)
        /\ IsRec(r)
        /\ ~req[r].includeReason
        /\ IsNonEmptyStr(Get(parsed[r], KeyReason))
        /\ ~HasKey(http[r].body, KeyReason)

\* C5: every successful test-generation response has the request's domain and the
\* request's language, whatever the model's reply stated and whichever call the
\* reply came from.
C5_TruthEnforcement ==
    \A r \in Requests :
        Succeeded(r) /\ IsTg(r)
        => /\ Get(http[r].body, KeyDomain) = JStr(req[r].domain)
           /\ Get(http[r].body, KeyLanguage) = JStr(req[r].language)

\* A success whose reply stated another domain and another language.
C5_Witness ==
    \E r \in Requests :
        /\ Succeeded(r)
        /\ IsTg(r)
        /\ Get(parsed[r], KeyDomain).t = "str"
        /\ Get(parsed[r], KeyDomain) # JStr(req[r].domain)
        /\ Get(parsed[r], KeyLanguage) # JStr(req[r].language)

\* The test cases of the response are those of the parsed reply, one for one.
CasesOfParsedReply(r) ==
    /\ Len(Cases(http[r].body).items) = Len(Cases(parsed[r]).items)
    /\ \A i \in 1..Len(Cases(parsed[r]).items) :
          Cases(http[r].body).items[i] = GeneratedTestCase(Cases(parsed[r]).items[i]).val

\* C6: a successful test-generation response has at least number_of_intents test
\* cases, exactly those of the parsed reply; a parsed reply whose testCases is
\* missing, not a list, empty or shorter than number_of_intents fails the request.
C6_MinimumCount ==
    \A r \in Requests :
        IsTg(r) /\ Done(r)
        => /\ Succeeded(r)
              => /\ Len(Cases(http[r].body).items) >= req[r].number_of_intents
                 /\ CasesOfParsedReply(r)
           /\ (/\ steps[r][Len(steps[r])] = "shape"
               /\ \/ Cases(parsed[r]).t # "list"
                  \/ Len(Cases(parsed[r]).items) < req[r].number_of_intents)
              => Failed(r)

\* A request rejected for a reply with some test cases, but too few.
C6_Witness ==
    \E r \in Requests :
        /\ Failed(r)
        /\ IsTg(r)
        /\ steps[r][Len(steps[r])] = "shape"
        /\ Cases(parsed[r]).t = "list"
        /\ Len(Cases(parsed[r]).items) >= 1
        /\ Len(Cases(parsed[r]).items) < req[r].number_of_intents

\* The calls of request r made with the given system prompt.
CallsWith(r, system) == {i \in 1..Len(calls[r]) : calls[r][i].system = system}

\* The first reply of request r held text that no strategy of the parser reads.
GenerationUnparsable(r) ==
    /\ Len(replies[r]) >= 1
    /\ ~replies[r][1].raised
    /\ InvokedText(replies[r][1]) # <<>>
    /\ ~safe_json_loads(InvokedText(replies[r][1])).ok

\* C7: the model is called at most once per recommendation request and at most
\* twice per test-generation request: the generation call, at most once, then at
\* most one repair call, made only after the generation reply failed to parse.
C7_BoundedInvocations ==
    \A r \in Requests :
        /\ Len(calls[r]) = Len(replies[r])
        /\ IsRec(r) => Len(calls[r]) <= 1
        /\ IsTg(r) =>
              /\ Len(calls[r]) <= 2
              /\ Cardinality(CallsWith(r, "SYSTEM_PROMPT_TEST_GENERATION")) <= 1
              /\ Len(calls[r]) >= 1 => calls[r][1].system = "SYSTEM_PROMPT_TEST_GENERATION"
              /\ Len(calls[r]) = 2 =>
                    /\ calls[r][2].system = "SYSTEM_PROMPT_JSON_REPAIR"
                    /\ GenerationUnparsable(r)

\* A test-generation request that made its two calls.
C7_Witness ==
    \E r \in Requests : IsTg(r) /\ Len(calls[r]) = 2 /\ Done(r)

\* The repair call of request r returned no text, or text that does not parse.
RepairUnusable(r) ==
    /\ Len(replies[r]) >= 2
    /\ calls[r][2].system = "SYSTEM_PROMPT_JSON_REPAIR"
    /\ ~replies[r][2].raised
    /\ \/ InvokedText(replies[r][2]) = <<>>
       \/ ~safe_json_loads(InvokedText(replies[r][2])).ok

\* C8: once the repair call has returned no text or text that still fails to
\* parse, the request has failed, after exactly two calls, with no step after the
\* repair.
C8_RepairFailureTerminal ==
    \A r \in Requests :
        IsTg(r) /\ RepairUnusable(r)
        => /\ Failed(r)
           /\ Len(calls[r]) = 2
           /\ steps[r] = <<"invoke", "parse", "repair">>

\* A repair call that returned text, which did not parse.
C8_Witness ==
    \E r \in Requests :
        /\ IsTg(r)
        /\ RepairUnusable(r)
        /\ InvokedText(replies[r][2]) # <<>>
        /\ Failed(r)

\* Request r made its repair call after a generation reply that did not parse, and
\* the repair call returned text.
RepairReturned(r) ==
    /\ IsTg(r)
    /\ Len(replies[r]) = 2
    /\ ~replies[r][2].raised
    /\ InvokedText(replies[r][2]) # <<>>
    /\ GenerationUnparsable(r)

\* What the parser makes of the repair call's text.
RepairedParse(r) == {safe_json_loads(InvokedText(replies[r][2]))}

\* An object whose testCases are well-formed and at least k in number.
EnoughWellFormedCases(v, k) ==
    /\ v.t = "obj"
    /\ Cases(v).t = "list"
    /\ Len(Cases(v).items) >= k
    /\ \A i \in 1..Len(Cases(v).items) : GeneratedTestCase(Cases(v).items[i]).ok

\* Request r succeeded from the repaired reply v: its test cases, the request's
\* domain and language, after a repair call that was given the text of the
\* generation reply.
RepairedSuccess(r, v) ==
    /\ Succeeded(r)
    /\ parsed[r] = v
    /\ CasesOfParsedReply(r)
    /\ calls[r][2] = TextCall("SYSTEM_PROMPT_JSON_REPAIR", InvokedText(replies[r][1]))
    /\ Get(http[r].body, KeyDomain) = JStr(req[r].domain)
    /\ Get(http[r].body, KeyLanguage) = JStr(req[r].language)

\* C9: whenever the generation reply fails to parse and the repair reply parses to
\* an object whose testCases are well-formed and at least number_of_intents in
\* number, the request succeeds, its test cases are those of the repaired reply,
\* the repair call was given the text of the generation reply, and domain and
\* language are the request's.
C9_RepairSuccess ==
    \A r \in Requests :
        Done(r) /\ RepairReturned(r)
        => \A p \in RepairedParse(r) :
              p.ok /\ EnoughWellFormedCases(p.val, req[r].number_of_intents)
              => RepairedSuccess(r, p.val)

\* A success through the repair call whose repaired reply stated another domain.
C9_Witness ==
    \E r \in Requests :
        /\ Succeeded(r)
        /\ RepairReturned(r)
        /\ \E p \in RepairedParse(r) :
              /\ p.ok
              /\ RepairedSuccess(r, p.val)
              /\ Get(p.val, KeyDomain).t = "str"
              /\ Get(p.val, KeyDomain) # JStr(req[r].domain)

\* The first model call of request r returned no usable text.
FirstReplyEmpty(r) ==
    /\ Len(replies[r]) >= 1
    /\ ~replies[r][1].raised
    /\ \/ replies[r][1].text = None
       \/ \A i \in 1..Len(replies[r][1].text.s) : replies[r][1].text.s[i] \in Whitespace

\* C10: in both reconcilers, once the first model call has returned no usable text
\* (absent, empty or whitespace only) the request has failed: no parse, fallback,
\* repair or shaping step ran, and the model was called once.
C10_ModelOutputEmpty ==
    \A r \in Requests :
        FirstReplyEmpty(r)
        => /\ Failed(r)
           /\ http[r].detail = "Bedrock response did not contain model text"
           /\ steps[r] = <<"invoke">>
           /\ Len(calls[r]) = 1

\* A recommendation request whose model reply was whitespace only.
C10_Witness ==
    \E r \in Requests :
        /\ IsRec(r)
        /\ FirstReplyEmpty(r)
        /\ replies[r][1].text # None
        /\ replies[r][1].text.s # <<>>
        /\ Failed(r)

\* The text of the model's reply to the (one) call of a recommendation request.
ReplyText(r) == replies[r][1].text.s

\* The trailing texts of the numbered or bulleted lines of a text, in source order.
ListItems(text) == MarkerCandidates(SelectNonEmptyStripped(splitlines(text)))

\* A recommendation request whose model reply held text in which the parser finds
\* no JSON, and whose numbered or bulleted lines are n in number.
ProseListOfN(r) ==
    /\ IsRec(r)
    /\ Done(r)
    /\ Len(replies[r]) = 1
    /\ ~replies[r][1].raised
    /\ replies[r][1].text # None
    /\ Len(ListItems(ReplyText(r))) = req[r].numRecommendations
    /\ ~safe_json_loads(ReplyText(r)).ok

\* The request succeeded with exactly the list items of the reply.
ListItemsReturned(r) ==
    /\ Succeeded(r)
    /\ Defining(http[r].body) =
           JList([i \in 1..req[r].numRecommendations |-> JStr(ListItems(ReplyText(r))[i])])

\* C11 as stated: whenever the reply holds no JSON and its numbered or bulleted
\* lines carry n items, no two of them the same string, the request succeeds with
\* exactly those items in source order.
C11_FallbackExtractionAsStated ==
    \A r \in Requests :
        /\ ProseListOfN(r)
        /\ \A i, j \in 1..Len(ListItems(ReplyText(r))) :
              i # j => ListItems(ReplyText(r))[i] # ListItems(ReplyText(r))[j]
        => ListItemsReturned(r)

\* C11, amended: whenever the reply holds no JSON and its numbered or bulleted
\* lines carry n items, no two of them equal when compared without regard to
\* case, the request succeeds and definingObjectives is exactly the trailing text
\* of those n lines, in source order; lines without a marker contribute nothing.
C11_FallbackExtraction ==
    \A r \in Requests :
        /\ ProseListOfN(r)
        /\ \A i, j \in 1..Len(ListItems(ReplyText(r))) :
              i # j => lower(ListItems(ReplyText(r))[i]) # lower(ListItems(ReplyText(r))[j])
        => ListItemsReturned(r)

\* A success from a reply with a line of prose before its list.
C11_Witness ==
    \E r \in Requests :
        /\ ProseListOfN(r)
        /\ ListItemsReturned(r)
        /\ steps[r] = <<"invoke", "parse", "fallback", "emit">>
        /\ Len(SelectNonEmptyStripped(splitlines(ReplyText(r)))) > req[r].numRecommendations

\* A string with no white space at either end (and at least one character).
IsTrimmed(s) == s # <<>> /\ s[1] \notin Whitespace /\ s[Len(s)] \notin Whitespace

\* C12: every successful recommendation response, from the strict path or from
\* the fallback, has exactly numRecommendations definingObjectives, each a
\* non-empty string with no leading or trailing white space.
C12_ResponseLength ==
    \A r \in Requests :
        Succeeded(r) /\ IsRec(r)
        => /\ Defining(http[r].body).t = "list"
           /\ Len(Defining(http[r].body).items) = req[r].numRecommendations
           /\ \A i \in 1..Len(Defining(http[r].body).items) :
                 /\ Defining(http[r].body).items[i].t = "str"
                 /\ IsTrimmed(Defining(http[r].body).items[i].s)

\* A success of the fallback on a reply that listed more items than requested.
C12_Witness ==
    \E r \in Requests :
        /\ Succeeded(r)
        /\ IsRec(r)
        /\ steps[r] = <<"invoke", "parse", "fallback", "emit">>
        /\ Len(ListItems(ReplyText(r))) > req[r].numRecommendations
        /\ Len(Defining(http[r].body).items) = req[r].numRecommendations

\* The last step request r took.
LastStep(r) == steps[r][Len(steps[r])]

\* What the shaping of the parsed reply of a test-generation request yields.
Shaping(r) ==
    {ShapeTestCases(parsed[r], req[r].domain, req[r].language, req[r].number_of_intents)}

\* What the fallback makes of the reply text of a recommendation request.
FallingBack(r) ==
    {fallback_parse_non_json_output(raw_text[r], req[r].includeReason,
                                    req[r].numRecommendations)}

\* The response of request r is the upstream failure carrying message e.
FailedWith(r, e) ==
    Failed(r) /\ http[r].body = None /\ http[r].detail = e

\* C13: whenever a reconciler raises (a transport error of the model call, empty
\* model output, a failed repair, too few results, a schema validation failure),
\* the handler answers 502 with the error's message; a finished request has either
\* that answer or a success whose definingObjectives / testCases is a non-empty
\* list, never a default or empty body.
C13_NoSwallowedError ==
    \A r \in Requests :
        Done(r)
        => /\ http[r].status \in {200, 502}
           /\ http[r].status = 502 => http[r].body = None /\ http[r].detail # "none"
           /\ http[r].status = 200 =>
                 /\ IsRec(r) => Defining(http[r].body).t = "list"
                                 /\ Defining(http[r].body).items # <<>>
                 /\ IsTg(r) => Cases(http[r].body).t = "list"
                                /\ Cases(http[r].body).items # <<>>
           /\ replies[r][Len(replies[r])].raised => FailedWith(r, "transport error")
           /\ FirstReplyEmpty(r) =>
                 FailedWith(r, "Bedrock response did not contain model text")
           /\ LastStep(r) = "fallback" =>
                 \A v \in FallingBack(r) : ~v.ok /\ FailedWith(r, v.err)
           /\ LastStep(r) = "repair" => Failed(r) /\ http[r].detail # "none"
           /\ LastStep(r) = "shape" =>
                 \A v \in Shaping(r) : ~v.ok => FailedWith(r, v.err)

\* A test-generation request refused for a test case that does not validate,
\* although there were test cases enough.
C13_Witness ==
    \E r \in Requests :
        /\ IsTg(r)
        /\ Failed(r)
        /\ LastStep(r) = "shape"
        /\ parsed[r].t = "obj"
        /\ _validate_min_counts(parsed[r], req[r].number_of_intents).ok
        /\ http[r].detail # "none"

\* Everything the model holds for request r.
OwnState(r) ==
    <<req[r], pc[r], calls[r], replies[r], raw_text[r], parsed[r], shaped[r], http[r],
      steps[r]>>

\* The answer to request q when the model's calls had the given outcomes.
Answer(q, outcomes) ==
    IF q.endpoint = "recommendation"
    THEN handle_recommendation(q, outcomes[1])
    ELSE handle_test_generation(q, outcomes)

\* The answer to every finished request is the one its own request and the
\* outcomes of its own model calls determine.
OwnOutcome == \A r \in Requests : Done(r) => http[r] = Answer(req[r], replies[r])

\* A step changes the state of one request only.
OneRequestSteps ==
    \A r, q \in Requests :
        r # q /\ OwnState(r)' # OwnState(r) => OwnState(q)' = OwnState(q)

\* C14: with the steps of several requests interleaved in any order, the answer to
\* each request is a function of its own request and of the model's replies to
\* its own calls (the one it gets when handled alone), and no step of one request
\* changes anything of another request.
C14_RequestIsolation == []OwnOutcome /\ [][OneRequestSteps]_vars

\* A recommendation answered from the fallback and a test generation answered
\* after a repair, both in flight together, with different replies.
C14_Witness ==
    /\ Done("r1") /\ Done("r2")
    /\ IsRec("r1") /\ IsTg("r2")
    /\ steps["r1"] = <<"invoke", "parse", "fallback", "emit">>
    /\ steps["r2"] = <<"invoke", "parse", "repair", "shape">>
    /\ Succeeded("r1") /\ Succeeded("r2")

\* What the parser makes of the generation reply of request r.
GenerationParse(r) == {safe_json_loads(InvokedText(replies[r][1]))}

\* A parsed reply that is no object, or whose testCases is missing, not a list,
\* empty, or shorter than k.
Insufficient(v, k) ==
    \/ v.t # "obj"
    \/ Cases(v).t # "list"
    \/ Len(Cases(v).items) < k

\* C15: when the generation reply parses as JSON but is not an object, or has a
\* missing or empty testCases, or fewer than number_of_intents test cases, the
\* request fails and the repair call is never made: the model was called once.
C15_RepairOnlyOnParseFailure ==
    \A r \in Requests :
        /\ IsTg(r)
        /\ Len(replies[r]) >= 1
        /\ ~replies[r][1].raised
        /\ InvokedText(replies[r][1]) # <<>>
        => \A p \in GenerationParse(r) :
              p.ok /\ Insufficient(p.val, req[r].number_of_intents)
              => /\ Len(calls[r]) = 1
                 /\ \A i \in 1..Len(steps[r]) : steps[r][i] # "repair"
                 /\ Done(r) => Failed(r)
                 /\ pc[r] \in {"tg_parse", "tg_shape", "done"}

\* A request that failed on a reply that parsed to a list, not an object.
C15_Witness ==
    \E r \in Requests :
        /\ IsTg(r)
        /\ Failed(r)
        /\ steps[r] = <<"invoke", "parse", "shape">>
        /\ parsed[r].t = "list"
        /\ Len(calls[r]) = 1

\* The fallback ran for request r.
FellBack(r) == IsRec(r) /\ Len(steps[r]) >= 3 /\ steps[r][3] = "fallback"

\* The text the fallback hands to parse_objectives_from_text, and what comes back.
Cleaned(r) == strip(raw_text[r])
Extracted(r) == {parse_objectives_from_text(Cleaned(r), req[r].numRecommendations)}

\* The pieces of a text between semicolons and line breaks, stripped.
Chunks(text) == SelectNonEmptyStripped(SplitOn(text, {";", NL}, 1))

\* The elements of a sequence.
Range(seq) == {seq[i] : i \in 1..Len(seq)}

\* C16: parse_objectives_from_text takes its candidates from the semicolon /
\* newline split, keeping chunks of at least 12 characters, only when no line of
\* the text carries a list marker; when some line does, every objective returned
\* is the trailing text of a marked line and no split chunk is added.
C16_CandidateSelection ==
    \A r \in Requests :
        FellBack(r)
        => \A out \in Extracted(r) :
              /\ IF ListItems(Cleaned(r)) # <<>>
                 THEN Range(out) \subseteq Range(ListItems(Cleaned(r)))
                 ELSE /\ Range(out) \subseteq Range(Chunks(Cleaned(r)))
                      /\ \A x \in Range(out) : Len(x) >= MinChunkLen
              /\ Succeeded(r) =>
                    Defining(http[r].body) = JList([i \in 1..Len(out) |-> JStr(out[i])])

\* A fallback on a text with a marked line and a long line of prose, which
\* returned the marked line's text only.
C16_Witness ==
    \E r \in Requests :
        /\ FellBack(r)
        /\ Succeeded(r)
        /\ ListItems(Cleaned(r)) # <<>>
        /\ \E x \in Range(Chunks(Cleaned(r))) :
              Len(x) >= MinChunkLen /\ x \notin Range(ListItems(Cleaned(r)))

\* The candidates of the fallback for request r, before de-duplication.
AllCandidates(r) == {Candidates(Cleaned(r), ListItems(Cleaned(r)))}

\* The positions of a sequence of texts that hold the first occurrence of their
\* text, compared without regard to case.
FirstOccurrences(all) ==
    {i \in 1..Len(all) : \A j \in 1..(i - 1) : lower(all[j]) # lower(all[i])}

\* The k-th smallest element of a set of positions.
Kth(idx, k) == CHOOSE i \in idx : Cardinality({j \in idx : j < i}) = k - 1

\* out holds, in order, the first n first occurrences of all (all of them when
\* they are fewer), as they were written.
IsDeduplicated(out, all, n) ==
    /\ Len(out) <= n
    /\ \A i, j \in 1..Len(out) : i # j => lower(out[i]) # lower(out[j])
    /\ Len(out) = IF Cardinality(FirstOccurrences(all)) < n
                  THEN Cardinality(FirstOccurrences(all)) ELSE n
    /\ \A k \in 1..Len(out) : out[k] = all[Kth(FirstOccurrences(all), k)]

\* C17: the objectives parse_objectives_from_text returns hold no two entries
\* equal without regard to case; each is the first occurrence, in its original
\* casing, in source order; at most numRecommendations are returned; and the
\* count compared with numRecommendations is the count after de-duplication.
C17_Deduplication ==
    \A r \in Requests :
        FellBack(r)
        => \A out \in Extracted(r) : \A all \in AllCandidates(r) :
              /\ IsDeduplicated(out, all, req[r].numRecommendations)
              /\ Cardinality(FirstOccurrences(all)) < req[r].numRecommendations
                    <=> Failed(r) /\ LastStep(r) = "fallback"

\* A fallback that dropped a candidate repeated in another casing and still
\* had candidates enough.
C17_Witness ==
    \E r \in Requests :
        /\ FellBack(r)
        /\ Succeeded(r)
        /\ \E all \in AllCandidates(r) : Cardinality(FirstOccurrences(all)) < Len(all)

\* What the strict-only variant returns for the request and the reply of r.
StrictVariant(r) == {rec_objective_recommend_objective(req[r], replies[r][1])}

\* C18: for every request and model reply on which the strict-only variant
\* (rec_objective.recommend_objective) returns a response, the variant with the
\* fallback (recommendation.recommend_objective) returns the same
\* definingObjectives and the same reason.
C18_VariantRefinement ==
    \A r \in Requests :
        IsRec(r) /\ Done(r)
        => \A s \in StrictVariant(r) :
              s.ok => /\ Succeeded(r)
                      /\ http[r].body = SerializeRecommendation(s.val)
                      /\ \A i \in 1..Len(steps[r]) : steps[r][i] # "fallback"

\* A reply on which both variants return a response with a reason.
C18_Witness ==
    \E r \in Requests :
        /\ IsRec(r)
        /\ Succeeded(r)
        /\ req[r].includeReason
        /\ \E s \in StrictVariant(r) :
              s.ok /\ http[r].body = SerializeRecommendation(s.val)

====
